---- MODULE Spec2Model ----
(***************************************************************************)
(* The strided, broadcasting tensor kernels of minitorch/fast_ops.py:     *)
(* FastOps.map / zip / reduce / matrix_multiply and the four kernels they *)
(* launch (tensor_map._map, tensor_zip._zip, tensor_reduce._reduce,       *)
(* _tensor_matrix_multiply).                                              *)
(*                                                                         *)
(* One call is modelled per behaviour.  The Call* actions are the Python  *)
(* wrappers (setup, validation, allocation of the output); each iteration *)
(* of a prange loop is a thread of its own that first loads its operands  *)
(* and then stores its result, so that every interleaving of the parallel *)
(* iterations is a behaviour.  Numba runs only the outermost prange of a  *)
(* nest in parallel; an inner prange (the fold of _reduce) is lowered as  *)
(* a sequential range loop, and with NUMBA_DISABLE_JIT=1 prange is range. *)
(*                                                                         *)
(* Shapes and strides are sequences (dimension d of the source is index   *)
(* d+1); storages are functions on 0..n-1 (the source's flat positions).  *)
(* tensor_data.py (to_index, index_to_position, broadcast_index,          *)
(* shape_broadcast, MAX_DIMS) and tensor.py (zeros, contiguous, view) are *)
(* not among the sources at hand; they follow sections 3 and 4 of the     *)
(* specification.                                                          *)
(***************************************************************************)
EXTENDS Integers, Sequences, FiniteSets, TLC

\* Capacity of the index buffers, np.zeros(MAX_DIMS, np.int32); the value is
\* the one tensor_data.py gives it upstream.
MAX_DIMS == 32

\* Bounds of the model: the largest number of elements of an operand, and
\* the largest rank of an operand of map, zip and reduce that fits the
\* index buffers; operands of rank MAX_DIMS + 1 are drawn besides, they and
\* the outputs of their calls of at most MaxOverSize elements.
MaxSize == 4
MaxRank == 2
MaxOverSize == 2

\* Values an out-of-bounds read may deliver (the build does no bounds check
\* under the JIT; the memory behind a buffer holds anything).
Garbage == {0 - 1, 0 - 2}

-----------------------------------------------------------------------------
(* tensor_data.py                                                          *)

RECURSIVE Prod(_)
Prod(s) == IF Len(s) = 0 THEN 1 ELSE Head(s) * Prod(Tail(s))

\* Row-major strides of a freshly allocated tensor.
strides_from_shape(shape) ==
    [d \in 1..Len(shape) |-> Prod(SubSeq(shape, d + 1, Len(shape)))]

RECURSIVE to_index_loop(_, _, _, _)
to_index_loop(cur_ord, shape, i, out_index) ==
    IF i = 0 THEN out_index
    ELSE to_index_loop(cur_ord \div shape[i], shape, i - 1,
                       [out_index EXCEPT ![i] = cur_ord % shape[i]])

\* The coordinate of a flat ordinal, last dimension fastest.
to_index(ordinal, shape) ==
    to_index_loop(ordinal, shape, Len(shape), [d \in 1..Len(shape) |-> 0])

RECURSIVE index_to_position_loop(_, _, _)
index_to_position_loop(index, strides, d) ==
    IF d = 0 THEN 0
    ELSE index[d] * strides[d] + index_to_position_loop(index, strides, d - 1)

\* Dot product of a coordinate and the strides.
index_to_position(index, strides) ==
    index_to_position_loop(index, strides, Len(strides))

\* A coordinate of big_shape projected into shape (right-aligned; a
\* dimension of size 1 maps to 0, leading dimensions are dropped).
broadcast_index(big_index, big_shape, shape) ==
    [i \in 1..Len(shape) |->
        IF shape[i] > 1 THEN big_index[i + (Len(big_shape) - Len(shape))] ELSE 0]

Max(x, y) == IF x >= y THEN x ELSE y

\* Dimension i (from the right, 1 = last) of a shape, 1 where it is missing.
RevDim(s, i) == IF i <= Len(s) THEN s[Len(s) + 1 - i] ELSE 1

\* shape_broadcast raises IndexingError (ShapeMismatch) unless this holds.
Broadcastable(s1, s2) ==
    \A i \in 1..Max(Len(s1), Len(s2)) :
        \/ RevDim(s1, i) = RevDim(s2, i)
        \/ RevDim(s1, i) = 1
        \/ RevDim(s2, i) = 1

shape_broadcast(s1, s2) ==
    LET m == Max(Len(s1), Len(s2))
    IN  [d \in 1..m |-> Max(RevDim(s1, m + 1 - d), RevDim(s2, m + 1 - d))]

-----------------------------------------------------------------------------
(* tensor.py                                                               *)

\* a.zeros(shape): a fresh contiguous tensor of zeros.
zeros(shape) ==
    [storage |-> [p \in 0..(Prod(shape) - 1) |-> 0],
     shape   |-> shape,
     strides |-> strides_from_shape(shape)]

\* a.contiguous().view(1, rows, cols): a row-major copy behind a batch of 1.
ContiguousView3(t) ==
    LET s3 == <<1>> \o t.shape
    IN  [storage |-> [p \in 0..(Prod(t.shape) - 1) |->
                         t.storage[index_to_position(to_index(p, t.shape), t.strides)]],
         shape   |-> s3,
         strides |-> strides_from_shape(s3)]

-----------------------------------------------------------------------------
(* The operands a call can be handed: a contiguous tensor, or a permuted  *)
(* view of one (Tensor.permute), holding distinct values.                  *)

Perms(r) == {p \in [1..r -> 1..r] : \A i, j \in 1..r : i # j => p[i] # p[j]}

ShapesOfRank(r) == {s \in [1..r -> 1..MaxSize] : Prod(s) <= MaxSize}

\* The outputs of the calls drawn are within the bound as well.
InBounds(shape) ==
    Prod(shape) <= (IF Len(shape) > MAX_DIMS THEN MaxOverSize ELSE MaxSize)

Ramp(n) == [p \in 0..(n - 1) |-> p + 1]

Permuted(s, p) ==
    [storage |-> Ramp(Prod(s)),
     shape   |-> [d \in 1..Len(s) |-> s[p[d]]],
     strides |-> [d \in 1..Len(s) |-> strides_from_shape(s)[p[d]]]]

TensorsOfRank(r) == {Permuted(s, p) : s \in ShapesOfRank(r), p \in Perms(r)}

\* Contiguous operands of rank MAX_DIMS + 1.
OverShapes ==
    {[d \in 1..(MAX_DIMS + 1) |-> IF d = k THEN n ELSE 1] :
        k \in {1, MAX_DIMS + 1}, n \in 1..MaxOverSize}

OverTensors ==
    {[storage |-> Ramp(Prod(s)), shape |-> s, strides |-> strides_from_shape(s)] :
        s \in OverShapes}

ElementwiseTensors == UNION {TensorsOfRank(r) : r \in 1..MaxRank} \cup OverTensors

MatMulTensors == TensorsOfRank(2) \cup TensorsOfRank(3)

\* The scalar functions handed to map, and to zip and reduce.
MapFns == {"id", "neg"}
ZipFns == {"add", "cat"}

Apply1(f, x) == IF f = "id" THEN x ELSE 0 - x

\* "cat" is neither commutative nor associative.
Apply2(f, x, y) == IF f = "add" THEN x + y ELSE 10 * x + y

-----------------------------------------------------------------------------
VARIABLES
    kernel,       \* "none", "map", "zip", "reduce" or "mm": the kernel called
    status,       \* "idle", "running", "done" or "error"
    error,        \* "", "ShapeMismatch", "DimensionMismatch" or "IndexError"
    fn,           \* the scalar function of the call
    start,        \* reduce: the seed of the fold
    reduce_dim,   \* reduce: the dimension folded (0-based, as in the source)
    both_2d,      \* matrix_multiply: both operands were of rank 2
    out, out_shape, out_strides,
    a_storage, a_shape, a_strides,
    b_storage, b_shape, b_strides,
    iter,         \* the iterations of the parallel loop: position and locals
    wcount,       \* history: stores made to each position of out
    writers,      \* history: the iterations that stored to each position of out
    readOut,      \* history: an iteration has read the output storage
    oob,          \* history: an input was read outside its storage
    bufOverflow,  \* history: an index buffer was indexed at or beyond MAX_DIMS
    stray,        \* history: a store was aimed outside the output storage
    pre           \* history: the operands and the output as the call set them up

vars == <<kernel, status, error, fn, start, reduce_dim, both_2d,
          out, out_shape, out_strides, a_storage, a_shape, a_strides,
          b_storage, b_shape, b_strides,
          iter, wcount, writers, readOut, oob, bufOverflow, stray, pre>>

callVars == <<kernel, fn, start, reduce_dim, both_2d, out_shape, out_strides,
              a_storage, a_shape, a_strides, b_storage, b_shape, b_strides, pre>>

NoTensor == [storage |-> <<>>, shape |-> <<>>, strides |-> <<>>]

\* Locals of one iteration: o the output position, v the value to store,
\* j the fold index, idx the out_index buffer (its first rank entries);
\* matrix multiply: r and c the row and column, k the inner index.
FreshIter ==
    [phase |-> "todo", o |-> 0, v |-> 0, j |-> 0, idx |-> <<>>,
     r |-> 0, c |-> 0, k |-> 0, a_pos |-> 0, b_pos |-> 0]

Init ==
    /\ kernel = "none"
    /\ status = "idle"
    /\ error = ""
    /\ fn = ""
    /\ start = 0
    /\ reduce_dim = 0
    /\ both_2d = FALSE
    /\ out = <<>>
    /\ out_shape = <<>>
    /\ out_strides = <<>>
    /\ a_storage = <<>>
    /\ a_shape = <<>>
    /\ a_strides = <<>>
    /\ b_storage = <<>>
    /\ b_shape = <<>>
    /\ b_strides = <<>>
    /\ iter = <<>>
    /\ wcount = <<>>
    /\ writers = <<>>
    /\ readOut = FALSE
    /\ oob = FALSE
    /\ bufOverflow = FALSE
    /\ stray = FALSE
    /\ pre = [a |-> NoTensor, b |-> NoTensor, o |-> NoTensor]

\* The state a wrapper leaves when it launches kernel kn with n parallel
\* iterations on output o and operands a and b.
Launch(kn, f, o, a, b, n) ==
    /\ kernel' = kn
    /\ status' = "running"
    /\ error' = ""
    /\ fn' = f
    /\ out' = o.storage
    /\ out_shape' = o.shape
    /\ out_strides' = o.strides
    /\ a_storage' = a.storage
    /\ a_shape' = a.shape
    /\ a_strides' = a.strides
    /\ b_storage' = b.storage
    /\ b_shape' = b.shape
    /\ b_strides' = b.strides
    /\ iter' = [i \in 0..(n - 1) |-> FreshIter]
    /\ wcount' = [p \in DOMAIN o.storage |-> 0]
    /\ writers' = [p \in DOMAIN o.storage |-> {}]
    /\ pre' = [a |-> a, b |-> b, o |-> o]
    /\ UNCHANGED <<readOut, oob, bufOverflow, stray>>

\* The state a wrapper leaves when its setup raises e: no output exists.
Raise(kn, e, a, b) ==
    /\ kernel' = kn
    /\ status' = "error"
    /\ error' = e
    /\ a_storage' = a.storage
    /\ a_shape' = a.shape
    /\ a_strides' = a.strides
    /\ b_storage' = b.storage
    /\ b_shape' = b.shape
    /\ b_strides' = b.strides
    /\ pre' = [a |-> a, b |-> b, o |-> NoTensor]
    /\ UNCHANGED <<fn, out, out_shape, out_strides, iter, wcount, writers,
                   readOut, oob, bufOverflow, stray>>

\* What a read of storage at position p delivers.
ReadVals(storage, p) == IF p \in DOMAIN storage THEN {storage[p]} ELSE Garbage

\* One store of an iteration to the output storage.
StoreOut(i, o, v) ==
    /\ out' = IF o \in DOMAIN out THEN [out EXCEPT ![o] = v] ELSE out
    /\ wcount' = IF o \in DOMAIN out THEN [wcount EXCEPT ![o] = @ + 1] ELSE wcount
    /\ writers' = IF o \in DOMAIN out THEN [writers EXCEPT ![o] = @ \cup {i}] ELSE writers
    /\ stray' = (stray \/ o \notin DOMAIN out)

\* An iteration raises in the middle of the loop (numpy's IndexError when
\* the kernels run without the JIT).
Abort ==
    /\ status' = "error"
    /\ error' = "IndexError"
    /\ UNCHANGED <<callVars, out, iter, wcount, writers, readOut, stray>>

-----------------------------------------------------------------------------
(* FastOps.map and tensor_map._map                                         *)

\* The tensors a caller may pass as out: any tensor that a broadcasts to.
ZeroOf(t) == [t EXCEPT !.storage = [p \in DOMAIN t.storage |-> 0]]

MapOuts(a) ==
    {zeros(a.shape)} \cup
    {ZeroOf(u) : u \in {w \in ElementwiseTensors :
                          /\ Len(a.shape) <= Len(w.shape)
                          /\ Broadcastable(a.shape, w.shape)
                          /\ shape_broadcast(a.shape, w.shape) = w.shape}}

CallMap ==
    /\ status = "idle"
    /\ \E a \in ElementwiseTensors, f \in MapFns :
         \E o \in MapOuts(a) :
            Launch("map", f, o, a, NoTensor, Prod(o.shape))
    /\ UNCHANGED <<start, reduce_dim, both_2d>>

\* strides_match = np.array_equal(in_strides, out_strides)
MapFast == a_strides = out_strides

\* The general path fills out_index and in_index, buffers of MAX_DIMS cells.
MapOverflows == Len(out_shape) > MAX_DIMS \/ Len(a_shape) > MAX_DIMS

\* Positions iteration i addresses: o in out, j in the input.
MapPlan(i) ==
    IF MapFast THEN [o |-> i, j |-> i]
    ELSE LET out_index == to_index(i, out_shape)
             in_index == broadcast_index(out_index, out_shape, a_shape)
         IN  [o |-> index_to_position(out_index, out_strides),
              j |-> index_to_position(in_index, a_strides)]

MapLoad(i) ==
    /\ status = "running" /\ kernel = "map"
    /\ iter[i].phase = "todo"
    /\ LET plan == MapPlan(i)
           over == ~MapFast /\ MapOverflows
       IN  /\ \E x \in ReadVals(a_storage, plan.j) \cup (IF over THEN Garbage ELSE {}) :
                iter' = [iter EXCEPT ![i] =
                            [@ EXCEPT !.phase = "loaded", !.o = plan.o,
                                      !.v = Apply1(fn, x)]]
           /\ oob' = (oob \/ plan.j \notin DOMAIN a_storage)
           /\ bufOverflow' = (bufOverflow \/ over)
    /\ UNCHANGED <<callVars, status, error, out, wcount, writers, readOut, stray>>

MapStore(i) ==
    /\ status = "running" /\ kernel = "map"
    /\ iter[i].phase = "loaded"
    /\ StoreOut(i, iter[i].o, iter[i].v)
    /\ iter' = [iter EXCEPT ![i].phase = "done"]
    /\ UNCHANGED <<callVars, status, error, readOut, oob, bufOverflow>>

MapFault(i) ==
    /\ status = "running" /\ kernel = "map"
    /\ iter[i].phase = "todo"
    /\ LET over == ~MapFast /\ MapOverflows
           bad == MapPlan(i).j \notin DOMAIN a_storage
       IN  /\ over \/ bad
           /\ oob' = (oob \/ (bad /\ ~over))
           /\ bufOverflow' = (bufOverflow \/ over)
    /\ Abort

-----------------------------------------------------------------------------
(* FastOps.zip and tensor_zip._zip                                         *)

\* ret: shape_broadcast raises before the output is allocated.
CallZip ==
    /\ status = "idle"
    /\ \E a \in ElementwiseTensors, b \in ElementwiseTensors, f \in ZipFns :
         IF Broadcastable(a.shape, b.shape)
         THEN LET o == zeros(shape_broadcast(a.shape, b.shape))
              IN  /\ InBounds(o.shape)
                  /\ Launch("zip", f, o, a, b, Prod(o.shape))
         ELSE Raise("zip", "ShapeMismatch", a, b)
    /\ UNCHANGED <<start, reduce_dim, both_2d>>

\* Mutant of ZipFast: the fast path is taken on the strides alone.
ZipFastStridesOnly ==
    /\ a_strides = out_strides
    /\ b_strides = out_strides

\* strides_match and shape_match
ZipFast ==
    /\ a_strides = out_strides
    /\ b_strides = out_strides
    /\ a_shape = b_shape

ZipOverflows ==
    Len(out_shape) > MAX_DIMS \/ Len(a_shape) > MAX_DIMS \/ Len(b_shape) > MAX_DIMS

\* Positions iteration i addresses: o in out, j in a, k in b.
ZipPlan(i) ==
    IF ZipFast THEN [o |-> i, j |-> i, k |-> i]
    ELSE LET out_index == to_index(i, out_shape)
             a_pos == broadcast_index(out_index, out_shape, a_shape)
             b_pos == broadcast_index(out_index, out_shape, b_shape)
         IN  [o |-> index_to_position(out_index, out_strides),
              j |-> index_to_position(a_pos, a_strides),
              k |-> index_to_position(b_pos, b_strides)]

ZipLoad(i) ==
    /\ status = "running" /\ kernel = "zip"
    /\ iter[i].phase = "todo"
    /\ LET plan == ZipPlan(i)
           over == ~ZipFast /\ ZipOverflows
           junk == IF over THEN Garbage ELSE {}
       IN  /\ \E v \in {Apply2(fn, x, y) : x \in ReadVals(a_storage, plan.j),
                                              y \in ReadVals(b_storage, plan.k)}
                       \cup junk :
                iter' = [iter EXCEPT ![i] =
                            [@ EXCEPT !.phase = "loaded", !.o = plan.o, !.v = v]]
           /\ oob' = (oob \/ plan.j \notin DOMAIN a_storage
                          \/ plan.k \notin DOMAIN b_storage)
           /\ bufOverflow' = (bufOverflow \/ over)
    /\ UNCHANGED <<callVars, status, error, out, wcount, writers, readOut, stray>>

ZipStore(i) ==
    /\ status = "running" /\ kernel = "zip"
    /\ iter[i].phase = "loaded"
    /\ StoreOut(i, iter[i].o, iter[i].v)
    /\ iter' = [iter EXCEPT ![i].phase = "done"]
    /\ UNCHANGED <<callVars, status, error, readOut, oob, bufOverflow>>

ZipFault(i) ==
    /\ status = "running" /\ kernel = "zip"
    /\ iter[i].phase = "todo"
    /\ ~ZipFast /\ ZipOverflows
    /\ bufOverflow' = TRUE
    /\ UNCHANGED oob
    /\ Abort

-----------------------------------------------------------------------------
(* FastOps.reduce and tensor_reduce._reduce                                *)

\* The (fn, start) pairs handed to reduce.
Folds == {<<"add", 0>>, <<"cat", 5>>}

\* ret: the output has a's shape with dimension dim collapsed to 1, and is
\* filled with start.
CallReduce ==
    /\ status = "idle"
    /\ \E a \in ElementwiseTensors, fs \in Folds :
         \E dim \in 0..(Len(a.shape) - 1) :
            LET shp == [a.shape EXCEPT ![dim + 1] = 1]
                z == zeros(shp)
                o == [z EXCEPT !.storage = [p \in DOMAIN z.storage |-> fs[2]]]
            IN  /\ Launch("reduce", fs[1], o, a, NoTensor, Prod(shp))
                /\ start' = fs[2]
                /\ reduce_dim' = dim
    /\ UNCHANGED both_2d

reduce_size == a_shape[reduce_dim + 1]

ReduceOverflows == Len(out_shape) > MAX_DIMS

\* Mutant of ReduceOutPos: the output position is taken with a's strides.
ReduceOutPosByInput(out_index) == index_to_position(out_index, a_strides)

\* o = index_to_position(out_index, out_strides)
ReduceOutPos(out_index) == index_to_position(out_index, out_strides)

\* The outer iteration i fixes its output cell.
ReduceBegin(i) ==
    /\ status = "running" /\ kernel = "reduce"
    /\ iter[i].phase = "todo"
    /\ LET out_index == to_index(i, out_shape)
       IN  iter' = [iter EXCEPT ![i] =
                       [@ EXCEPT !.phase = "fold", !.idx = out_index, !.j = 0,
                                 !.o = ReduceOutPos(out_index)]]
    /\ bufOverflow' = (bufOverflow \/ ReduceOverflows)
    /\ UNCHANGED <<callVars, status, error, out, wcount, writers, readOut, oob, stray>>

\* Mutant of NextInner: the fold runs over the indices in descending order.
NextInnerDescending(it, jj) == jj = (reduce_size - 1) - it.j

\* Mutant of NextInner: the steps of the fold are taken in any order, as a
\* parallel loop would take them.
NextInnerAnyOrder(it, jj) == jj \in 0..(reduce_size - 1)

\* The inner loop, for j in prange(reduce_size), nested in the outer prange:
\* it runs as range(reduce_size), so the step taken after it.j steps is for
\* the index it.j.
NextInner(it, jj) == jj = it.j

\* out_index[reduce_dim] = j; p = ...; the operands of fn are read.
ReduceLoad(i) ==
    /\ status = "running" /\ kernel = "reduce"
    /\ iter[i].phase = "fold"
    /\ \E jj \in 0..(reduce_size - 1) :
         /\ NextInner(iter[i], jj)
         /\ LET out_index == [iter[i].idx EXCEPT ![reduce_dim + 1] = jj]
                p == index_to_position(out_index, a_strides)
                junk == IF ReduceOverflows THEN Garbage ELSE {}
            IN  /\ \E acc \in ReadVals(out, iter[i].o),
                      x \in ReadVals(a_storage, p) \cup junk :
                     iter' = [iter EXCEPT ![i] =
                                 [@ EXCEPT !.phase = "loaded", !.idx = out_index,
                                           !.v = Apply2(fn, acc, x)]]
                /\ oob' = (oob \/ p \notin DOMAIN a_storage)
    /\ readOut' = TRUE
    /\ UNCHANGED <<callVars, status, error, out, wcount, writers, bufOverflow, stray>>

\* out[o] = fn(out[o], a_storage[p]) completes; the loop advances.
ReduceStore(i) ==
    /\ status = "running" /\ kernel = "reduce"
    /\ iter[i].phase = "loaded"
    /\ StoreOut(i, iter[i].o, iter[i].v)
    /\ iter' = [iter EXCEPT ![i] =
                   [@ EXCEPT !.j = @ + 1,
                             !.phase = IF iter[i].j + 1 >= reduce_size
                                       THEN "done" ELSE "fold"]]
    /\ UNCHANGED <<callVars, status, error, readOut, oob, bufOverflow>>

ReduceFault(i) ==
    /\ status = "running" /\ kernel = "reduce"
    /\ iter[i].phase = "todo"
    /\ ReduceOverflows
    /\ bufOverflow' = TRUE
    /\ UNCHANGED oob
    /\ Abort

-----------------------------------------------------------------------------
(* FastOps.matrix_multiply and _tensor_matrix_multiply                     *)

\* Mutant of InnerDimsAgree: the assertion is missing.
InnerDimsUnchecked(a, b) == TRUE

\* assert a.shape[-1] == b.shape[-2]
InnerDimsAgree(a, b) == a.shape[Len(a.shape)] = b.shape[Len(b.shape) - 1]

\* Operands of rank 2 are promoted to rank 3; the batch dimensions are
\* broadcast, then the inner dimensions asserted, then out is allocated.
CallMatMul ==
    /\ status = "idle"
    /\ \E a0 \in MatMulTensors, b0 \in MatMulTensors :
         LET a == IF Len(a0.shape) = 2 THEN ContiguousView3(a0) ELSE a0
             b == IF Len(b0.shape) = 2 THEN ContiguousView3(b0) ELSE b0
         IN  /\ both_2d' = (Len(a0.shape) = 2 /\ Len(b0.shape) = 2)
             /\ IF ~Broadcastable(<<a.shape[1]>>, <<b.shape[1]>>)
                THEN Raise("mm", "ShapeMismatch", a, b)
                ELSE IF ~InnerDimsAgree(a, b)
                THEN Raise("mm", "DimensionMismatch", a, b)
                ELSE LET ls == shape_broadcast(<<a.shape[1]>>, <<b.shape[1]>>)
                               \o <<a.shape[2], b.shape[3]>>
                     IN  /\ InBounds(ls)
                         /\ Launch("mm", "", zeros(ls), a, b, ls[1])
    /\ UNCHANGED <<start, reduce_dim>>

\* Mutant of a_batch_stride: the batch stride of a is never zeroed.
a_batch_stride_plain == a_strides[1]

a_batch_stride == IF a_shape[1] > 1 THEN a_strides[1] ELSE 0
b_batch_stride == IF b_shape[1] > 1 THEN b_strides[1] ELSE 0

\* Mutant of MMOutPos: the batch offset is left out.
MMOutPosNoBatch(n, r, c) == r * out_strides[2] + c * out_strides[3]

\* out_pos of the cell (n, r, c)
MMOutPos(n, r, c) == n * out_strides[1] + r * out_strides[2] + c * out_strides[3]

\* Batch n starts the cell (r, c): sum = 0 and the three positions.
MMBegin(n) ==
    /\ status = "running" /\ kernel = "mm"
    /\ iter[n].phase = "todo"
    /\ LET it == iter[n]
       IN  iter' = [iter EXCEPT ![n] =
                       [@ EXCEPT !.phase = "acc", !.v = 0, !.k = 0,
                                 !.a_pos = n * a_batch_stride + it.r * a_strides[2],
                                 !.b_pos = n * b_batch_stride + it.c * b_strides[3],
                                 !.o = MMOutPos(n, it.r, it.c)]]
    /\ UNCHANGED <<callVars, status, error, out, wcount, writers,
                   readOut, oob, bufOverflow, stray>>

\* One step of the sweep over k: sum += a_storage[a_pos] * b_storage[b_pos].
MMAcc(n) ==
    /\ status = "running" /\ kernel = "mm"
    /\ iter[n].phase = "acc"
    /\ iter[n].k < a_shape[3]
    /\ LET it == iter[n]
       IN  /\ \E x \in ReadVals(a_storage, it.a_pos), y \in ReadVals(b_storage, it.b_pos) :
                iter' = [iter EXCEPT ![n] =
                            [@ EXCEPT !.v = @ + x * y, !.k = @ + 1,
                                      !.a_pos = @ + a_strides[3],
                                      !.b_pos = @ + b_strides[2]]]
           /\ oob' = (oob \/ it.a_pos \notin DOMAIN a_storage
                          \/ it.b_pos \notin DOMAIN b_storage)
    /\ UNCHANGED <<callVars, status, error, out, wcount, writers,
                   readOut, bufOverflow, stray>>

\* out[out_pos] = sum, after the sweep; the loops over j and i advance.
MMStore(n) ==
    /\ status = "running" /\ kernel = "mm"
    /\ iter[n].phase = "acc"
    /\ iter[n].k >= a_shape[3]
    /\ StoreOut(n, iter[n].o, iter[n].v)
    /\ LET it == iter[n]
       IN  iter' = [iter EXCEPT ![n] =
                       IF it.c + 1 < out_shape[3]
                       THEN [@ EXCEPT !.phase = "todo", !.c = @ + 1]
                       ELSE IF it.r + 1 < out_shape[2]
                       THEN [@ EXCEPT !.phase = "todo", !.c = 0, !.r = @ + 1]
                       ELSE [@ EXCEPT !.phase = "done"]]
    /\ UNCHANGED <<callVars, status, error, readOut, oob, bufOverflow>>

\* The kernel returns once every iteration has run.
Finish ==
    /\ status = "running"
    /\ \A i \in DOMAIN iter : iter[i].phase = "done"
    /\ status' = "done"
    /\ out_shape' = IF both_2d THEN <<out_shape[2], out_shape[3]>> ELSE out_shape
    /\ out_strides' = IF both_2d THEN <<out_strides[2], out_strides[3]>> ELSE out_strides
    /\ UNCHANGED <<kernel, error, fn, start, reduce_dim, both_2d, out,
                   a_storage, a_shape, a_strides, b_storage, b_shape, b_strides,
                   iter, wcount, writers, readOut, oob, bufOverflow, stray, pre>>

Next ==
    \/ CallMap
    \/ CallZip
    \/ CallReduce
    \/ CallMatMul
    \/ \E i \in DOMAIN iter : MapLoad(i)
    \/ \E i \in DOMAIN iter : MapStore(i)
    \/ \E i \in DOMAIN iter : MapFault(i)
    \/ \E i \in DOMAIN iter : ZipLoad(i)
    \/ \E i \in DOMAIN iter : ZipStore(i)
    \/ \E i \in DOMAIN iter : ZipFault(i)
    \/ \E i \in DOMAIN iter : ReduceBegin(i)
    \/ \E i \in DOMAIN iter : ReduceLoad(i)
    \/ \E i \in DOMAIN iter : ReduceStore(i)
    \/ \E i \in DOMAIN iter : ReduceFault(i)
    \/ \E n \in DOMAIN iter : MMBegin(n)
    \/ \E n \in DOMAIN iter : MMAcc(n)
    \/ \E n \in DOMAIN iter : MMStore(n)
    \/ Finish

Spec == Init /\ [][Next]_vars

-----------------------------------------------------------------------------
(* Properties                                                              *)

\* Every coordinate of a shape.
RECURSIVE Coords(_)
Coords(shape) ==
    IF Len(shape) = 0 THEN {<<>>}
    ELSE {<<h>> \o t : h \in 0..(Head(shape) - 1), t \in Coords(Tail(shape))}

\* Section 3 of the specification: the rank of every operand of a kernel
\* call is at most MAX_DIMS.  The claims about what a call computes are
\* claims about the calls of this data model; C8 is the claim about the
\* calls outside it.
RanksFit ==
    /\ Len(out_shape) <= MAX_DIMS
    /\ Len(a_shape) <= MAX_DIMS
    /\ Len(b_shape) <= MAX_DIMS

RECURSIVE FoldLeft(_, _, _)
FoldLeft(f, acc, xs) ==
    IF Len(xs) = 0 THEN acc
    ELSE FoldLeft(f, Apply2(f, acc, Head(xs)), Tail(xs))

\* The elements of a along the reduced dimension at coordinate c, ascending.
Lane(c) ==
    [j \in 1..reduce_size |->
        a_storage[index_to_position([c EXCEPT ![reduce_dim + 1] = j - 1], a_strides)]]

\* C1: when a reduce call returns, every output cell c holds the left fold
\* fn(...fn(fn(start, a[c, dim:=0]), a[c, dim:=1])..., a[c, dim:=last]) of
\* the elements of a along dim in ascending order, for any strides of a.
C1_ReduceIsLeftFold ==
    (kernel = "reduce" /\ status = "done" /\ RanksFit) =>
        \A c \in Coords(out_shape) :
            out[index_to_position(c, out_strides)] = FoldLeft(fn, start, Lane(c))

\* A fold by the non-commutative "cat" over two elements of a transposed
\* view, for two output cells, has returned.
C1_Witness ==
    /\ kernel = "reduce" /\ status = "done"
    /\ fn = "cat" /\ start = 5
    /\ a_shape = <<2, 2>> /\ a_strides = <<1, 2>> /\ reduce_dim = 0
    /\ out = (0 :> 512 @@ 1 :> 534)

\* C2: when a zip call returns, out_shape is the broadcast of the operand
\* shapes and every output coordinate c holds fn of the elements of a and b
\* at c projected into their shapes, on the fast path and on the general one.
C2_ZipElementwise ==
    (kernel = "zip" /\ status = "done" /\ RanksFit) =>
        /\ out_shape = shape_broadcast(a_shape, b_shape)
        /\ \A c \in Coords(out_shape) :
              out[index_to_position(c, out_strides)] =
                  Apply2(fn,
                         a_storage[index_to_position(
                             broadcast_index(c, out_shape, a_shape), a_strides)],
                         b_storage[index_to_position(
                             broadcast_index(c, out_shape, b_shape), b_strides)])

\* A [2,2] tensor plus a [2] tensor, on the general path, has returned.
C2_Witness ==
    /\ kernel = "zip" /\ status = "done" /\ fn = "add"
    /\ a_shape = <<2, 2>> /\ b_shape = <<2>> /\ out_shape = <<2, 2>>
    /\ ~ZipFast
    /\ a_strides = <<2, 1>>
    /\ out = (0 :> 2 @@ 1 :> 4 @@ 2 :> 4 @@ 3 :> 6)

\* The sum over the first k inner indices of a[na, i, .] * b[nb, ., j].
RECURSIVE DotK(_, _, _, _, _)
DotK(na, nb, i, j, k) ==
    IF k = 0 THEN 0
    ELSE DotK(na, nb, i, j, k - 1)
         + a_storage[na * a_strides[1] + i * a_strides[2] + (k - 1) * a_strides[3]]
           * b_storage[nb * b_strides[1] + (k - 1) * b_strides[2] + j * b_strides[3]]

\* The position of out[n, i, j] (of out[i, j] once the result is squeezed).
OutCell(n, i, j) ==
    IF Len(out_shape) = 2 THEN i * out_strides[1] + j * out_strides[2]
    ELSE n * out_strides[1] + i * out_strides[2] + j * out_strides[3]

\* C3: when a matrix multiply returns, out[n,i,j] is the sum over k of
\* a[na,i,k] * b[nb,k,j], where an operand of batch size 1 lends its one
\* slice to every n, for any strides of a and b.
C3_MatMulBatched ==
    (kernel = "mm" /\ status = "done") =>
        LET N == Max(a_shape[1], b_shape[1])
            I == a_shape[2]
            J == b_shape[3]
        IN  /\ out_shape = IF both_2d THEN <<I, J>> ELSE <<N, I, J>>
            /\ \A n \in 0..(N - 1), i \in 0..(I - 1), j \in 0..(J - 1) :
                  out[OutCell(n, i, j)] =
                      DotK(IF a_shape[1] > 1 THEN n ELSE 0,
                           IF b_shape[1] > 1 THEN n ELSE 0, i, j, a_shape[3])

\* A [1,1,2] operand times a transposed [2,2,1] operand has returned: the
\* one slice of a served both batches.
C3_Witness ==
    /\ kernel = "mm" /\ status = "done"
    /\ a_shape = <<1, 1, 2>> /\ b_shape = <<2, 2, 1>>
    /\ b_strides = <<2, 1, 2>>
    /\ out_shape = <<2, 1, 1>>
    /\ out = (0 :> 1 * 1 + 2 * 2 @@ 1 :> 1 * 3 + 2 * 4)

\* C4: in a map call whose input broadcasts to the output, no position
\* outside the input storage is read, and when the call returns every output
\* coordinate c holds fn of the input at c projected into in_shape, whether
\* the strides matched (fast path) or not (general path).
C4_MapPathsAgree ==
    (kernel = "map" /\ RanksFit) =>
        /\ ~oob
        /\ status = "done" =>
              \A c \in Coords(out_shape) :
                  out[index_to_position(c, out_strides)] =
                      Apply1(fn, a_storage[index_to_position(
                                     broadcast_index(c, out_shape, a_shape), a_strides)])

\* The output storage a call starts from.
InitialOut == [p \in DOMAIN out |-> IF kernel = "reduce" THEN start ELSE 0]

\* Storage st after batch n of the matrix multiply has run its first q cells.
RECURSIVE MMBatchAlone(_, _, _)
MMBatchAlone(n, q, st) ==
    IF q = 0 THEN st
    ELSE LET r == (q - 1) \div b_shape[3]
             c == (q - 1) % b_shape[3]
         IN  [MMBatchAlone(n, q - 1, st) EXCEPT
                 ![OutCell(n, r, c)] =
                     DotK(IF a_shape[1] > 1 THEN n ELSE 0,
                          IF b_shape[1] > 1 THEN n ELSE 0, r, c, a_shape[3])]

\* Storage st after iteration i of the parallel loop has run on it alone.
IterAlone(i, st) ==
    CASE kernel = "map" ->
            [st EXCEPT ![MapPlan(i).o] = Apply1(fn, a_storage[MapPlan(i).j])]
      [] kernel = "zip" ->
            [st EXCEPT ![ZipPlan(i).o] =
                Apply2(fn, a_storage[ZipPlan(i).j], b_storage[ZipPlan(i).k])]
      [] kernel = "reduce" ->
            LET idx == to_index(i, out_shape)
                o == ReduceOutPos(idx)
            IN  [st EXCEPT ![o] = FoldLeft(fn, st[o], Lane(idx))]
      [] OTHER -> MMBatchAlone(i, a_shape[2] * b_shape[3], st)

\* The sequential schedule: the iterations one after the other, ascending.
RECURSIVE RunInOrder(_, _)
RunInOrder(n, st) == IF n = 0 THEN st ELSE IterAlone(n - 1, RunInOrder(n - 1, st))

Reference == RunInOrder(Cardinality(DOMAIN iter), InitialOut)

\* C5: whatever the schedule of the parallel iterations, a call that returns
\* leaves in the output storage what the sequential schedule leaves there,
\* a function of the inputs alone.
C5_ScheduleIndependent ==
    (status = "done" /\ RanksFit) => (~oob /\ out = Reference)

\* C6: the steps of the fold of one output cell run one after the other in
\* ascending order: the step for index j reads out[o] when exactly the j
\* earlier steps have stored to it, stores what it computed from that read,
\* and no other iteration shares the cell.
C6_FoldStepsSequential ==
    (kernel = "reduce" /\ status \in {"running", "done"} /\ RanksFit) =>
        /\ \A i \in DOMAIN iter :
              LET it == iter[i]
              IN  /\ it.phase \in {"fold", "loaded"} => it.j = wcount[it.o]
                  /\ it.phase = "loaded" =>
                        /\ it.idx[reduce_dim + 1] = wcount[it.o]
                        /\ it.v = Apply2(fn, out[it.o],
                                         a_storage[index_to_position(it.idx, a_strides)])
                  /\ it.phase = "done" => wcount[it.o] = reduce_size
                  /\ it.phase # "todo" => writers[it.o] \subseteq {i}
        /\ \A i, k \in DOMAIN iter :
              (i # k /\ iter[i].phase # "todo" /\ iter[k].phase # "todo")
                  => iter[i].o # iter[k].o

\* Two cells are being folded at once; one has stored its first step and
\* read for its second, the other has read for its first.
C6_Witness ==
    /\ kernel = "reduce" /\ status = "running" /\ fn = "cat"
    /\ reduce_size = 2 /\ DOMAIN iter = {0, 1}
    /\ iter[0].phase = "loaded" /\ iter[0].idx[reduce_dim + 1] = 1
    /\ iter[1].phase = "loaded" /\ iter[1].idx[reduce_dim + 1] = 0
    /\ wcount = (0 :> 1 @@ 1 :> 0)

\* The call has ended in its setup: no output storage exists, no iteration
\* has run, nothing was stored, and the operands are as they were passed.
NothingRan ==
    /\ out = <<>> /\ out_shape = <<>> /\ iter = <<>> /\ wcount = <<>>
    /\ ~stray /\ ~readOut
    /\ [storage |-> a_storage, shape |-> a_shape, strides |-> a_strides] = pre.a
    /\ [storage |-> b_storage, shape |-> b_shape, strides |-> b_strides] = pre.b

\* C7: a zip whose shapes cannot broadcast, a matrix multiply whose batch
\* dimensions cannot broadcast, and a matrix multiply whose inner dimensions
\* disagree fail in the setup: no iteration runs, no output is written, no
\* input is changed.
C7_SetupErrorsWriteNothing ==
    /\ (kernel = "zip" /\ ~Broadcastable(a_shape, b_shape))
          => (status = "error" /\ error = "ShapeMismatch" /\ NothingRan)
    /\ (kernel = "mm" /\ ~Broadcastable(<<a_shape[1]>>, <<b_shape[1]>>))
          => (status = "error" /\ error = "ShapeMismatch" /\ NothingRan)
    /\ (kernel = "mm" /\ Broadcastable(<<a_shape[1]>>, <<b_shape[1]>>)
                      /\ a_shape[3] # b_shape[2])
          => (status = "error" /\ error = "DimensionMismatch" /\ NothingRan)
    /\ error \in {"ShapeMismatch", "DimensionMismatch"} => NothingRan

\* A matrix multiply of [1,2,2] by [1,1,2] has failed on its inner dimensions.
C7_Witness ==
    /\ kernel = "mm" /\ status = "error" /\ error = "DimensionMismatch"
    /\ a_shape = <<1, 2, 2>> /\ b_shape = <<1, 1, 2>>
    /\ a_storage = (0 :> 1 @@ 1 :> 2 @@ 2 :> 3 @@ 3 :> 4)
    /\ out = <<>>

\* C8: a map, zip or reduce call with an operand of rank above MAX_DIMS is
\* rejected with RankOverflow in the setup: nothing runs, nothing is stored,
\* and no index buffer is indexed at or beyond MAX_DIMS.
C8_RankOverflowRejected ==
    (kernel \in {"map", "zip", "reduce"} /\ ~RanksFit) =>
        /\ status = "error" /\ error = "RankOverflow"
        /\ NothingRan
        /\ ~bufOverflow

\* The flat positions addressed by (out_shape, out_strides).
Addressed == {index_to_position(c, out_strides) : c \in Coords(out_shape)}

\* C9: in a map, zip or matrix multiply call no position of out is stored to
\* twice or by two iterations, no store misses the output, the output is
\* never read, a cell of the matrix product is not stored before the sweep
\* over k is complete, and when the call returns every addressed position
\* has been stored to exactly once.
C9_EachOutputWrittenOnce ==
    (kernel \in {"map", "zip", "mm"} /\ RanksFit) =>
        /\ \A p \in DOMAIN wcount : wcount[p] <= 1 /\ Cardinality(writers[p]) <= 1
        /\ ~stray
        /\ ~readOut
        /\ kernel = "mm" =>
              \A n \in DOMAIN iter :
                  iter[n].phase = "acc" => wcount[iter[n].o] = 0
        /\ status = "done" =>
              /\ Addressed = DOMAIN out
              /\ \A p \in Addressed : wcount[p] = 1 /\ Cardinality(writers[p]) = 1

\* Two batches of a matrix multiply, each with two cells: batch 0 has stored
\* its first cell and is in the sweep of its second, batch 1 has finished.
C9_Witness ==
    /\ kernel = "mm" /\ status = "running"
    /\ DOMAIN iter = {0, 1} /\ a_shape[3] = 2
    /\ iter[0].phase = "acc" /\ iter[0].k = 1 /\ iter[0].o = 1
    /\ iter[1].phase = "done"
    /\ wcount = (0 :> 1 @@ 1 :> 0 @@ 2 :> 1 @@ 3 :> 1)

\* C10: from the moment a kernel is called, the input storages, shapes and
\* strides are what they were before the call, the output's shape and
\* strides are untouched while the kernel runs, and every store goes to a
\* position of the output storage addressed by (out_shape, out_strides).
C10_InputsUntouched ==
    (status # "idle" /\ RanksFit) =>
        /\ [storage |-> a_storage, shape |-> a_shape, strides |-> a_strides] = pre.a
        /\ [storage |-> b_storage, shape |-> b_shape, strides |-> b_strides] = pre.b
        /\ ~stray
        /\ status = "running" =>
              /\ out_shape = pre.o.shape /\ out_strides = pre.o.strides
              /\ DOMAIN out = DOMAIN pre.o.storage
              /\ \A p \in DOMAIN out : wcount[p] > 0 => p \in Addressed
              /\ \A p \in DOMAIN out : wcount[p] = 0 => out[p] = pre.o.storage[p]

\* A reduce over a transposed [2,2] input is half way: one cell is folded,
\* the other untouched, and the input is as it was passed.
C10_Witness ==
    /\ kernel = "reduce" /\ status = "running"
    /\ a_shape = <<2, 2>> /\ a_strides = <<1, 2>>
    /\ a_storage = (0 :> 1 @@ 1 :> 2 @@ 2 :> 3 @@ 3 :> 4)
    /\ wcount = (0 :> 2 @@ 1 :> 0)
====
